---- MODULE Spec2Model ----
(***************************************************************************)
(* Model of the Beurer PO60 pulse-oximeter reader (src/code.py).           *)
(*                                                                         *)
(* The program keeps two module-level lists, measurements and raw_data,    *)
(* fills them from the BLE notification callback handle_notification, and  *)
(* picks the latest measurement in main after two command writes and two   *)
(* sleeps.  Python indices are 0-based, TLA+ sequences 1-based: data[k] of *)
(* the source is data[k+1] here.                                           *)
(***************************************************************************)
EXTENDS Integers, Sequences, FiniteSets, TLC

VARIABLES
    measurements,   \* code.py:29  list of parsed measurement dicts
    raw_data,       \* code.py:30  list of hex strings of every notification
    log,            \* records of the source's own logging.debug / info /
                    \* warning calls, in order (records of other loggers,
                    \* such as asyncio's, are not part of it)
    written,        \* command byte arrays written to WRITE_UUID
    pc,             \* position of main()
    latest,         \* code.py:84  the dict main's local variable latest
                    \* refers to, as it is now (None while unbound)
    latest_ref,     \* position in measurements of the dict latest refers
                    \* to: latest is a reference, not a copy; 0 when none
    main_exc,       \* exception that escaped main, "None" if none
    handler_exc,    \* exception that escaped the most recent handler call
    loop,           \* the asyncio event loop: the callback tasks created
                    \* and not yet finished, and whether one is mid-run
    stream,         \* history: the buffers delivered so far, in order
    last            \* history: what the most recent step was and saw

vars == <<measurements, raw_data, log, written, pc, latest, latest_ref, main_exc,
          handler_exc, loop, stream, last>>

(***************************************************************************)
(* Bounds and program constants                                            *)
(***************************************************************************)
MaxNotifications == 3

MIN_PACKET_LENGTH == 23

MARKER == 233

\* Python's None; dicts are records, so None is a record no dict equals.
None == [NoneType |-> TRUE]

NoExc == "NoExc"

(***************************************************************************)
(* Byte arithmetic                                                         *)
(***************************************************************************)
RECURSIVE BitAnd(_, _)
BitAnd(a, b) ==
    IF a = 0 \/ b = 0 THEN 0
    ELSE (a % 2) * (b % 2) + 2 * BitAnd(a \div 2, b \div 2)

HexDigits == <<"0", "1", "2", "3", "4", "5", "6", "7",
               "8", "9", "a", "b", "c", "d", "e", "f">>

\* bytes.hex(): two lowercase hex digits per byte, high nibble first.
RECURSIVE Hex(_)
Hex(data) ==
    IF data = <<>> THEN <<>>
    ELSE <<HexDigits[(Head(data) \div 16) + 1], HexDigits[(Head(data) % 16) + 1]>>
         \o Hex(Tail(data))

\* data[lo:hi] of Python, lo and hi 0-based, clipped to the length.
Slice(data, lo, hi) ==
    LET top == IF hi < Len(data) THEN hi ELSE Len(data)
    IN  IF top <= lo THEN <<>> ELSE [i \in 1..(top - lo) |-> data[lo + i]]

(***************************************************************************)
(* Python dict helpers                                                     *)
(***************************************************************************)
\* d[k] = v on a dict: adds the key when absent, replaces its value otherwise.
DictSet(d, k, v) == [x \in (DOMAIN d) \cup {k} |-> IF x = k THEN v ELSE d[x]]

\* d.get(k, default)
DictGet(d, k, default) == IF k \in DOMAIN d THEN d[k] ELSE default

(***************************************************************************)
(* parse and extract_time (code.py:34-50)                                  *)
(***************************************************************************)
\* Variant of extract_time: the month masked with 0x1F in place of 0x0F.
extract_time_Month1F(data) ==
    [year   |-> 2000 + BitAnd(data[1], 127),
     month  |-> BitAnd(data[2], 31),
     day    |-> BitAnd(data[3], 31),
     hour   |-> BitAnd(data[4], 31),
     minute |-> BitAnd(data[5], 63),
     second |-> BitAnd(data[6], 63)]

extract_time(data) ==
    [year   |-> 2000 + BitAnd(data[1], 127),
     month  |-> BitAnd(data[2], 15),
     day    |-> BitAnd(data[3], 31),
     hour   |-> BitAnd(data[4], 31),
     minute |-> BitAnd(data[5], 63),
     second |-> BitAnd(data[6], 63)]

\* Variants of the packet test: a length bound one too small, and one too large.
InvalidPacket_Min22(data) == Len(data) < MIN_PACKET_LENGTH - 1 \/ data[1] # MARKER

InvalidPacket_LE(data) == Len(data) <= MIN_PACKET_LENGTH \/ data[1] # MARKER

\* code.py:35  the test that rejects a packet (or short-circuits on length).
InvalidPacket(data) == Len(data) < MIN_PACKET_LENGTH \/ data[1] # MARKER

\* Variant of parse: the SpO2 bytes taken without the 0x7F mask.
parse_NoSpo2Mask(data) ==
    IF InvalidPacket(data)
    THEN [value |-> None, warned |-> TRUE]
    ELSE [value |-> [packet   |-> BitAnd(data[2], 15),
                     end_time |-> extract_time(Slice(data, 8, 14)),
                     spo2     |-> [max |-> data[18], min |-> data[19], avg |-> data[20]]],
          warned |-> FALSE]

\* code.py:34-42  value is None for a rejected packet, warned is whether the
\* "Invalid or incomplete data packet" warning was logged.
parse(data) ==
    IF InvalidPacket(data)
    THEN [value |-> None, warned |-> TRUE]
    ELSE [value |-> [packet   |-> BitAnd(data[2], 15),
                     end_time |-> extract_time(Slice(data, 8, 14)),
                     spo2     |-> [max |-> BitAnd(data[18], 127),
                                   min |-> BitAnd(data[19], 127),
                                   avg |-> BitAnd(data[20], 127)]],
          warned |-> FALSE]

\* Variant of the truthiness test: the check of parse's result left out.
Truthy_Always(m) == TRUE

\* Truthiness of parse's result (code.py:60): None is false, a non-empty dict true.
Truthy(m) == m # None

(***************************************************************************)
(* Log records (logging.debug / info / warning calls of the source)        *)
(***************************************************************************)
LogReceived(hex_data) == [level |-> "DEBUG", msg |-> "Received", arg |-> hex_data]
LogInvalidPacket == [level |-> "WARNING", msg |-> "Invalid or incomplete data packet received.", arg |-> <<>>]
LogPulseRateUpdated(pr) == [level |-> "INFO", msg |-> "Pulse Rate updated", arg |-> pr]
LogPRIncomplete == [level |-> "WARNING", msg |-> "PR values incomplete in notification.", arg |-> <<>>]
LogConnected == [level |-> "INFO", msg |-> "Connected", arg |-> <<>>]
LogLatest(m) == [level |-> "INFO", msg |-> "Latest Measurement",
                 arg |-> [packet |-> m.packet, spo2 |-> m.spo2,
                          pr |-> DictGet(m, "pr", "N/A")]]
LogNoMeasurements == [level |-> "INFO", msg |-> "No measurements received.", arg |-> <<>>]

(***************************************************************************)
(* handle_notification (code.py:52-72)                                     *)
(***************************************************************************)
\* code.py:58  data[0] == 0xe9 (evaluated on a non-empty buffer).
IsMeasurementPacket(data) == data[1] = MARKER

\* Variants of the attach guard: attach only to a record without 'pr'; accept
\* any non-empty buffer.
CanAttach_Once(ms, data) ==
    Len(ms) > 0 /\ Len(data) >= 3 /\ "pr" \notin DOMAIN ms[Len(ms)]

CanAttach_Len1(ms, data) == Len(ms) > 0 /\ Len(data) >= 1

\* Variant of the attach guard: strict length comparison.
CanAttach_GT(ms, data) == Len(ms) > 0 /\ Len(data) > 3

\* code.py:62  measurements and len(data) >= 3
CanAttach(ms, data) == Len(ms) > 0 /\ Len(data) >= 3

\* Variant of the pulse-rate dict: the 0x7F masks left out.
PulseRate_NoMask(data) == [max |-> data[1], min |-> data[2], avg |-> data[3]]

\* code.py:65-69  the dict built from the first three bytes.
PulseRate(data) ==
    [max |-> BitAnd(data[1], 127),
     min |-> BitAnd(data[2], 127),
     avg |-> BitAnd(data[3], 127)]

\* Variant of the assignment: the record replaced by one holding only 'pr'.
SetLastPR_Replace(ms, pr) == [ms EXCEPT ![Len(ms)] = [pr |-> pr]]

\* Variant of the assignment: index 0 in place of index -1.
SetLastPR_First(ms, pr) == [ms EXCEPT ![1] = DictSet(ms[1], "pr", pr)]

\* code.py:65  measurements[-1]['pr'] = pr
SetLastPR(ms, pr) == [ms EXCEPT ![Len(ms)] = DictSet(ms[Len(ms)], "pr", pr)]

\* code.py:58-72  the body after the raw-data bookkeeping: the new list of
\* measurements, the log records emitted, and the exception that escapes.
HandlerBody(ms, data) ==
    IF Len(data) = 0
    THEN \* data[0] on an empty buffer raises IndexError outside the try block
         [measurements |-> ms, events |-> <<>>, exc |-> "IndexError"]
    ELSE IF IsMeasurementPacket(data)
    THEN LET r == parse(data)
         IN  [measurements |-> IF Truthy(r.value) THEN Append(ms, r.value) ELSE ms,
              events |-> IF r.warned THEN <<LogInvalidPacket>> ELSE <<>>,
              exc |-> NoExc]
    ELSE IF CanAttach(ms, data)
    THEN IF Len(data) >= 3   \* data[0], data[1], data[2] all exist
         THEN [measurements |-> SetLastPR(ms, PulseRate(data)),
               events |-> <<LogPulseRateUpdated(PulseRate(data))>>,
               exc |-> NoExc]
         ELSE \* IndexError caught at code.py:71
              [measurements |-> ms, events |-> <<LogPRIncomplete>>, exc |-> NoExc]
    ELSE [measurements |-> ms, events |-> <<>>, exc |-> NoExc]

(***************************************************************************)
(* The selection in main (code.py:83-87)                                   *)
(***************************************************************************)
\* key(a) > key(b) where both keys are dicts (x['end_time']): Python 3 dicts
\* define no ordering, so the comparison raises TypeError whatever the values.
DictGreater(a, b) == [exc |-> "TypeError", value |-> FALSE]

\* max(seq, key=lambda x: x['end_time']) on a non-empty list: the first item
\* is the running maximum, every later item is compared with it by >.  max
\* returns the list's own element, not a copy: best is its position, ref the
\* position of the element returned, value that element.
RECURSIVE MaxFrom(_, _, _)
MaxFrom(seq, i, best) ==
    IF i > Len(seq) THEN [exc |-> NoExc, value |-> seq[best], ref |-> best]
    ELSE LET c == DictGreater(seq[i].end_time, seq[best].end_time)
         IN  IF c.exc # NoExc THEN [exc |-> c.exc, value |-> None, ref |-> 0]
             ELSE MaxFrom(seq, i + 1, IF c.value THEN i ELSE best)

PyMax(seq) == MaxFrom(seq, 2, 1)

\* Variant of the selection: max called without the emptiness test; max of an
\* empty list raises ValueError.
SelectLatest_NoGuard(ms) ==
    IF Len(ms) = 0
    THEN [latest |-> None, ref |-> 0, events |-> <<>>, exc |-> "ValueError"]
    ELSE LET r == PyMax(ms)
         IN  IF r.exc # NoExc
             THEN [latest |-> None, ref |-> 0, events |-> <<>>, exc |-> r.exc]
             ELSE [latest |-> r.value, ref |-> r.ref,
                   events |-> <<LogLatest(r.value)>>, exc |-> NoExc]

\* code.py:83-87  the outcome of the selection: the record chosen (None when
\* nothing was chosen) and its position in the list (0 when none), the log
\* records emitted, the exception that escapes.
SelectLatest(ms) ==
    IF Len(ms) > 0
    THEN LET r == PyMax(ms)
         IN  IF r.exc # NoExc
             THEN [latest |-> None, ref |-> 0, events |-> <<>>, exc |-> r.exc]
             ELSE [latest |-> r.value, ref |-> r.ref,
                   events |-> <<LogLatest(r.value)>>, exc |-> NoExc]
    ELSE [latest |-> None, ref |-> 0, events |-> <<LogNoMeasurements>>, exc |-> NoExc]

(***************************************************************************)
(* Notification buffers the device may deliver                             *)
(***************************************************************************)
\* A buffer of the given length laid out as a measurement packet: first byte,
\* packet-number byte data[1], time bytes data[8:14], SpO2 bytes data[17:20];
\* every other byte is zero.
Packet(len, first, seq, ts, spo) ==
    [i \in 1..len |->
        IF i = 1 THEN first
        ELSE IF i = 2 THEN seq
        ELSE IF i \in 9..14 THEN ts[i - 8]
        ELSE IF i \in 18..20 THEN spo[i - 17]
        ELSE 0]

T_2025_03_10_12_30_45 == <<25, 3, 10, 12, 30, 45>>
T_2024_12_31_23_59_58_high == <<152, 252, 255, 247, 251, 250>>
T_2025_03_10_12_30_46 == <<25, 3, 10, 12, 30, 46>>

MeasurementBuffers ==
    { Packet(23, MARKER, 1, T_2025_03_10_12_30_45, <<98, 90, 94>>),
      Packet(24, MARKER, 242, T_2024_12_31_23_59_58_high, <<227, 223, 225>>),
      Packet(23, MARKER, 19, T_2025_03_10_12_30_45, <<97, 91, 93>>),
      Packet(23, MARKER, 4, T_2025_03_10_12_30_46, <<96, 92, 95>>) }

ShortMarkerBuffers ==
    { <<MARKER>>,
      Packet(22, MARKER, 1, T_2025_03_10_12_30_45, <<98, 90, 94>>) }

OtherBuffers ==
    { <<>>, <<80>>, <<80, 64>>, <<80, 64, 70>>, <<209, 193, 199>>,
      Packet(23, 105, 1, T_2025_03_10_12_30_45, <<98, 90, 94>>) }

Buffers == MeasurementBuffers \cup ShortMarkerBuffers \cup OtherBuffers

(***************************************************************************)
(* State machine                                                           *)
(***************************************************************************)
\* code.py:78-82  positions of main at which it is suspended in an await
\* while the callback is registered, so that a notification can arrive: from
\* inside the await of start_notify until the client has disconnected.
Notifying == {"start_notify", "write1", "sleep1", "write2", "sleep2", "disconnect"}

\* Positions of main at which a callback can run: those at which a
\* notification arrives and, for a callback scheduled before main's last
\* step and run after it, the end of main.
CallbackRuns == Notifying \cup {"done"}

Init ==
    /\ measurements = <<>>
    /\ raw_data = <<>>
    /\ log = <<>>
    /\ written = <<>>
    /\ pc = "connect"
    /\ latest = None
    /\ latest_ref = 0
    /\ main_exc = NoExc
    /\ handler_exc = NoExc
    /\ loop = [running |-> FALSE, tasks |-> <<>>]
    /\ stream = <<>>
    /\ last = [op |-> "init", before |-> <<>>, nlog |-> 0]

MainStep(op) == last' = [op |-> op, before |-> measurements, nlog |-> Len(log)]

\* code.py:76-77  async with BleakClient(address) entered, "Connected" logged.
Connect ==
    /\ pc = "connect"
    /\ pc' = "start_notify"
    /\ log' = Append(log, LogConnected)
    /\ MainStep("main")
    /\ UNCHANGED <<measurements, raw_data, written, latest, latest_ref,
                 main_exc, handler_exc, loop, stream>>

\* code.py:78  await client.start_notify(NOTIFY_UUID, handle_notification)
StartNotify ==
    /\ pc = "start_notify"
    /\ pc' = "write1"
    /\ MainStep("main")
    /\ UNCHANGED <<measurements, raw_data, log, written, latest, latest_ref,
                 main_exc, handler_exc, loop, stream>>

\* code.py:79  await client.write_gatt_char(WRITE_UUID, bytearray([0x90, 0x05, 0x15]))
Write1 ==
    /\ pc = "write1"
    /\ pc' = "sleep1"
    /\ written' = Append(written, <<144, 5, 21>>)
    /\ MainStep("main")
    /\ UNCHANGED <<measurements, raw_data, log, latest, latest_ref,
                 main_exc, handler_exc, loop, stream>>

\* code.py:80  await asyncio.sleep(0.5)
Sleep1 ==
    /\ pc = "sleep1"
    /\ pc' = "write2"
    /\ MainStep("main")
    /\ UNCHANGED <<measurements, raw_data, log, written, latest, latest_ref,
                 main_exc, handler_exc, loop, stream>>

\* code.py:81  await client.write_gatt_char(WRITE_UUID, bytearray([0x99, 0x00, 0x19]))
Write2 ==
    /\ pc = "write2"
    /\ pc' = "sleep2"
    /\ written' = Append(written, <<153, 0, 25>>)
    /\ MainStep("main")
    /\ UNCHANGED <<measurements, raw_data, log, latest, latest_ref,
                 main_exc, handler_exc, loop, stream>>

\* code.py:82-87  asyncio.sleep(5) returns and the selection runs with no
\* await in between; afterwards the async with block is left.
Select ==
    /\ pc = "sleep2"
    /\ pc' = "disconnect"
    /\ LET r == SelectLatest(measurements)
       IN  /\ latest' = r.latest
           /\ latest_ref' = r.ref
           /\ log' = log \o r.events
           /\ main_exc' = r.exc
    /\ MainStep("select")
    /\ UNCHANGED <<measurements, raw_data, written, handler_exc, loop, stream>>

\* code.py:76  __aexit__ of the client: the connection is closed, main ends
\* (re-raising the exception of the block, if any).
Disconnect ==
    /\ pc = "disconnect"
    /\ pc' = "done"
    /\ MainStep("main")
    /\ UNCHANGED <<measurements, raw_data, log, written, latest, latest_ref,
                 main_exc, handler_exc, loop, stream>>

\* code.py:52-72  one run of the notification callback on buffer data.  The
\* coroutine has no await, so it runs to completion as one step.
handle_notification(data) ==
    /\ Len(stream) < MaxNotifications
    /\ LET hex_data == Hex(data)
           r == HandlerBody(measurements, data)
       IN  /\ raw_data' = Append(raw_data, hex_data)
           /\ log' = Append(log, LogReceived(hex_data)) \o r.events
           /\ measurements' = r.measurements
           /\ handler_exc' = r.exc
           \* main's latest refers to a dict of the list: a pulse rate set
           \* on that dict shows through it
           /\ latest' = IF latest_ref \in 1..Len(r.measurements)
                         THEN r.measurements[latest_ref] ELSE latest
    /\ stream' = Append(stream, data)
    /\ last' = [op |-> "notify", before |-> measurements, nlog |-> Len(log)]
    /\ UNCHANGED <<written, pc, latest_ref, main_exc, loop>>

\* code.py:78  a notification arrives and its callback runs.
Notify ==
    /\ pc \in CallbackRuns
    /\ \E data \in Buffers : handle_notification(data)

Next ==
    \/ Connect
    \/ StartNotify
    \/ Write1
    \/ Sleep1
    \/ Write2
    \/ Select
    \/ Disconnect
    \/ Notify

Spec == Init /\ [][Next]_vars

(***************************************************************************)
(* A second specification for the byte-level properties of parse and of    *)
(* the pulse-rate assignment: one measurement packet followed by one       *)
(* three-byte buffer, their field bytes drawn from values that set each    *)
(* bit a mask may cut (16, 32, 64, 128), none, or all.                     *)
(***************************************************************************)
ByteSamples == {0, 16, 32, 64, 128, 255}

\* Neighbouring fields get different sample bytes.
SampledPackets ==
    { Packet(MIN_PACKET_LENGTH, MARKER, x, <<y, z, x, y, z, x>>, <<z, x, y>>) :
        x \in ByteSamples, y \in ByteSamples, z \in ByteSamples }

SampledTriples ==
    { <<x, y, z>> : x \in ByteSamples, y \in ByteSamples, z \in ByteSamples }

NotifyPacket ==
    /\ pc \in CallbackRuns
    /\ Len(stream) = 0
    /\ \E data \in SampledPackets \cup MeasurementBuffers : handle_notification(data)

NotifyTriple ==
    /\ pc \in CallbackRuns
    /\ Len(stream) = 1
    /\ \E data \in SampledTriples : handle_notification(data)

NextBytes ==
    \/ Connect
    \/ StartNotify
    \/ NotifyPacket
    \/ NotifyTriple

SpecBytes == Init /\ [][NextBytes]_vars

(***************************************************************************)
(* A third specification, for the scheduling of the callback: the handler  *)
(* statement by statement on the asyncio event loop.  Every notification   *)
(* creates a task for the coroutine handle_notification; the loop runs the *)
(* tasks in the order of their creation; a task that has started keeps the *)
(* loop until it ends or reaches an await, and only then can main, the     *)
(* transport or another task take a step.                                  *)
(***************************************************************************)
\* Variant: an await put between parse and the append (before code.py:60).
HandlerAwaits_BeforeAppend == {"l60"}

\* code.py:52-72  the statements of handle_notification before which the
\* coroutine awaits: its body holds no await expression.
HandlerAwaits == {}

\* One statement of handle_notification, run by task t (its buffer t.data, its
\* position t.at, its local variable measurement t.m) on the list ms: the new
\* list, what is appended to raw_data and to the log, the next position
\* ("end" when the coroutine returns or raises) and the exception raised.
HandlerStatement(ms, t) ==
    LET same == [measurements |-> ms, raw |-> <<>>, events |-> <<>>,
                 at |-> "end", m |-> t.m, exc |-> NoExc]
    IN  CASE t.at = "l53" ->   \* code.py:53-55
                 [same EXCEPT !.raw = <<Hex(t.data)>>,
                              !.events = <<LogReceived(Hex(t.data))>>,
                              !.at = "l58"]
          [] t.at = "l58" ->   \* code.py:58 / 62: which branch, or IndexError
                 IF Len(t.data) = 0 THEN [same EXCEPT !.exc = "IndexError"]
                 ELSE IF IsMeasurementPacket(t.data) THEN [same EXCEPT !.at = "l59"]
                 ELSE IF CanAttach(ms, t.data) THEN [same EXCEPT !.at = "l65"]
                 ELSE same
          [] t.at = "l59" ->   \* code.py:59
                 [same EXCEPT !.m = parse(t.data).value,
                              !.events = IF parse(t.data).warned
                                         THEN <<LogInvalidPacket>> ELSE <<>>,
                              !.at = "l60"]
          [] t.at = "l60" ->   \* code.py:60-61
                 IF Truthy(t.m) THEN [same EXCEPT !.measurements = Append(ms, t.m)]
                 ELSE same
          [] t.at = "l65" ->   \* code.py:64-69, 71-72
                 IF Len(t.data) >= 3
                 THEN [same EXCEPT !.measurements = SetLastPR(ms, PulseRate(t.data)),
                                   !.at = "l70"]
                 ELSE [same EXCEPT !.events = <<LogPRIncomplete>>]
          [] t.at = "l70" ->   \* code.py:70
                 [same EXCEPT !.events = <<LogPulseRateUpdated(ms[Len(ms)].pr)>>]

\* The buffers of this specification: two valid packets, two triples, a
\* short buffer, a short marker buffer and the empty buffer.
LoopBuffers ==
    { Packet(23, MARKER, 1, T_2025_03_10_12_30_45, <<98, 90, 94>>),
      Packet(24, MARKER, 242, T_2024_12_31_23_59_58_high, <<227, 223, 225>>),
      <<80, 64, 70>>, <<209, 193, 199>>, <<80>>, <<MARKER>>, <<>> }

\* code.py:78  a notification arrives: the transport creates a task that will
\* run handle_notification(sender, data); it starts at the first statement.
Deliver ==
    /\ pc \in Notifying
    /\ ~loop.running
    /\ Len(stream) < MaxNotifications
    /\ \E data \in LoopBuffers :
          /\ loop' = [loop EXCEPT !.tasks = Append(@, [data |-> data, at |-> "l53", m |-> None])]
          /\ stream' = Append(stream, data)
    /\ last' = [op |-> "deliver", before |-> measurements, nlog |-> Len(log)]
    /\ UNCHANGED <<measurements, raw_data, log, written, pc, latest, latest_ref,
                   main_exc, handler_exc>>

\* The loop runs the next statement of the task at the head of its queue: the
\* task that is mid-run or, when none is, the oldest one waiting.
HandlerStep ==
    /\ Len(loop.tasks) > 0
    /\ LET t == Head(loop.tasks)
           r == HandlerStatement(measurements, t)
           t2 == [t EXCEPT !.at = r.at, !.m = r.m]
       IN  /\ measurements' = r.measurements
           /\ raw_data' = raw_data \o r.raw
           /\ log' = log \o r.events
           /\ handler_exc' = IF r.at = "end" THEN r.exc ELSE handler_exc
           /\ latest' = IF latest_ref \in 1..Len(r.measurements)
                         THEN r.measurements[latest_ref] ELSE latest
           /\ loop' = IF r.at = "end"
                       THEN [running |-> FALSE, tasks |-> Tail(loop.tasks)]
                       ELSE IF r.at \in HandlerAwaits
                       THEN [running |-> FALSE, tasks |-> Append(Tail(loop.tasks), t2)]
                       ELSE [running |-> TRUE, tasks |-> <<t2>> \o Tail(loop.tasks)]
    /\ last' = [op |-> "statement", before |-> measurements, nlog |-> Len(log)]
    /\ UNCHANGED <<written, pc, latest_ref, main_exc, stream>>

\* main resumes from an await only while no task is mid-run.
MainResumes ==
    /\ ~loop.running
    /\ \/ Connect
       \/ StartNotify
       \/ Write1
       \/ Sleep1
       \/ Write2
       \/ Select
       \/ Disconnect

NextLoop ==
    \/ MainResumes
    \/ Deliver
    \/ HandlerStep

SpecLoop == Init /\ [][NextLoop]_vars

(***************************************************************************)
(* Vocabulary of the properties                                            *)
(***************************************************************************)
\* The buffer of the most recent handler step.
CurBuf == stream[Len(stream)]

AfterNotify == last.op = "notify"

\* A valid measurement buffer in the specification's sense.
ValidMeasurement(b) == Len(b) >= 23 /\ b[1] = 233

\* A buffer that has a first byte, and it is not the marker.
NonMarker(b) == Len(b) >= 1 /\ b[1] # 233

HasPR(m) == "pr" \in DOMAIN m

StripPR(m) == [k \in (DOMAIN m) \ {"pr"} |-> m[k]]

\* The session has a record that awaits its pulse-rate triple.
Awaiting(ms) == Len(ms) > 0 /\ ~HasPR(ms[Len(ms)])

\* The triple the specification derives from a buffer of length >= 3.
Triple(b) == [max |-> b[1] % 128, min |-> b[2] % 128, avg |-> b[3] % 128]

ValidOnes(bs) == SelectSeq(bs, ValidMeasurement)

ExampleMeasurement == Packet(23, 233, 1, <<25, 3, 10, 12, 30, 45>>, <<98, 90, 94>>)

(***************************************************************************)
(* C1: a buffer shorter than 23 bytes, or whose first byte is not 0xE9,    *)
(* appends no record: the number of records is the same after the handler  *)
(* step as before it.                                                      *)
(***************************************************************************)
C1_InvalidAppendsNothing ==
    (AfterNotify /\ ~ValidMeasurement(CurBuf))
        => Len(measurements) = Len(last.before)

C1_Witness ==
    /\ AfterNotify
    /\ Len(CurBuf) = 22 /\ CurBuf[1] = 233
    /\ Len(last.before) = 1
    /\ Len(measurements) = 1

(***************************************************************************)
(* C2: a valid measurement buffer, whatever the state, appends exactly one *)
(* record at the end, without pulse rate, and that record is then the one  *)
(* awaiting a triple; so the session always holds exactly one record per   *)
(* valid buffer of the stream, in arrival order.                           *)
(***************************************************************************)
C2_ValidAppendsOne ==
    /\ (AfterNotify /\ ValidMeasurement(CurBuf)) =>
          /\ Len(measurements) = Len(last.before) + 1
          /\ SubSeq(measurements, 1, Len(last.before)) = last.before
          /\ ~HasPR(measurements[Len(measurements)])
          /\ Awaiting(measurements)
    /\ Len(measurements) = Len(ValidOnes(stream))
    /\ \A i \in 1..Len(measurements) :
          StripPR(measurements[i]) = parse(ValidOnes(stream)[i]).value

C2_Witness ==
    /\ AfterNotify
    /\ Len(stream) = 3
    /\ ValidMeasurement(stream[1]) /\ NonMarker(stream[2]) /\ Len(stream[2]) = 3
    /\ ValidMeasurement(stream[3]) /\ stream[3] # stream[1]
    /\ Len(measurements) = 2
    /\ HasPR(measurements[1]) /\ ~HasPR(measurements[2])

(***************************************************************************)
(* C3: a non-marker buffer of length >= 3 right after a valid measurement  *)
(* gives the record of that measurement the masked first three bytes as    *)
(* pulse rate and adds no record; [validMeasurement, [0x50,0x40,0x46]]     *)
(* yields one record with pulse rate {80, 64, 70}.                         *)
(***************************************************************************)
C3_TripleAttached ==
    /\ (/\ AfterNotify
        /\ Len(stream) >= 2
        /\ ValidMeasurement(stream[Len(stream) - 1])
        /\ NonMarker(CurBuf) /\ Len(CurBuf) >= 3) =>
          /\ Len(measurements) = Len(last.before)
          /\ HasPR(measurements[Len(measurements)])
          /\ measurements[Len(measurements)].pr = Triple(CurBuf)
          /\ StripPR(measurements[Len(measurements)])
                = parse(stream[Len(stream) - 1]).value
          /\ \A i \in 1..(Len(measurements) - 1) : measurements[i] = last.before[i]
    /\ stream = <<ExampleMeasurement, <<80, 64, 70>>>> =>
          /\ Len(measurements) = 1
          /\ HasPR(measurements[1])
          /\ measurements[1].pr = [max |-> 80, min |-> 64, avg |-> 70]

C3_Witness ==
    /\ AfterNotify
    /\ Len(stream) = 3
    /\ ValidMeasurement(stream[2])
    /\ CurBuf = <<209, 193, 199>>
    /\ Len(measurements) = 2
    /\ measurements[2].pr = [max |-> 81, min |-> 65, avg |-> 71]

(***************************************************************************)
(* C4: a pulse rate, once set on a record, is never changed or replaced by *)
(* a later buffer.                                                         *)
(***************************************************************************)
C4_PulseRateNeverOverwritten ==
    AfterNotify =>
        \A i \in 1..Len(last.before) :
            HasPR(last.before[i]) =>
                HasPR(measurements[i]) /\ measurements[i].pr = last.before[i].pr

(***************************************************************************)
(* C5: while no record awaits a pulse rate (empty session, or the last     *)
(* record already has its triple), a buffer whose first byte is not 0xE9   *)
(* changes no record and the correlator still awaits a measurement.        *)
(***************************************************************************)
C5_NonMarkerDiscardedWhenIdle ==
    (AfterNotify /\ ~Awaiting(last.before) /\ NonMarker(CurBuf)) =>
        /\ measurements = last.before
        /\ ~Awaiting(measurements)

(***************************************************************************)
(* C6: once a newer record has been appended, a buffer modifies no record  *)
(* other than the last one; after [validMeasurement, validMeasurement] the *)
(* session has two records and the first never gets a pulse rate.          *)
(***************************************************************************)
C6_OnlyLastRecordModified ==
    /\ AfterNotify =>
          \A i \in 1..(Len(last.before) - 1) : measurements[i] = last.before[i]
    /\ (/\ Len(stream) >= 2
        /\ ValidMeasurement(stream[1])
        /\ ValidMeasurement(stream[2])) =>
          /\ Len(measurements) >= 2
          /\ ~HasPR(measurements[1])
    /\ (Len(stream) = 2 /\ ValidMeasurement(stream[1]) /\ ValidMeasurement(stream[2]))
          => Len(measurements) = 2

C6_Witness ==
    /\ AfterNotify
    /\ Len(stream) = 3
    /\ ValidMeasurement(stream[1]) /\ ValidMeasurement(stream[2])
    /\ CurBuf = <<80, 64, 70>>
    /\ Len(measurements) = 2
    /\ ~HasPR(measurements[1])
    /\ HasPR(measurements[2])

(***************************************************************************)
(* C7: every buffer, the empty one included, is processed by the handler   *)
(* without a failure escaping it, in every session state.                  *)
(***************************************************************************)
C7_HandlerNeverRaises == handler_exc = NoExc

(***************************************************************************)
(* C8: over a session of two or more records the selection returns a       *)
(* record of the session whose timestamp is greatest in the lexicographic  *)
(* order of (year, month, day, hour, minute, second), whatever the order   *)
(* of insertion.                                                           *)
(***************************************************************************)
TimeKey(t) == <<t.year, t.month, t.day, t.hour, t.minute, t.second>>

RECURSIVE LexLE(_, _)
LexLE(a, b) ==
    IF a = <<>> THEN TRUE
    ELSE IF Head(a) # Head(b) THEN Head(a) < Head(b)
    ELSE LexLE(Tail(a), Tail(b))

C8_SelectorReturnsGreatest ==
    (last.op = "select" /\ Len(measurements) >= 2) =>
        /\ main_exc = NoExc
        /\ latest # None
        /\ \E i \in 1..Len(measurements) : measurements[i] = latest
        /\ \A i \in 1..Len(measurements) :
              LexLE(TimeKey(measurements[i].end_time), TimeKey(latest.end_time))

(***************************************************************************)
(* C9: while a record awaits its pulse rate, a buffer shorter than 3 bytes *)
(* whose first byte is not 0xE9 leaves every record as it was (no pulse    *)
(* rate, no new record, still awaiting), and the next non-marker buffer of *)
(* length >= 3 attaches its triple to that same record.                    *)
(***************************************************************************)
ShortNonMarker(b) == Len(b) < 3 /\ (Len(b) = 0 \/ b[1] # 233)

C9_ShortBufferKeepsAwaiting ==
    /\ (AfterNotify /\ Awaiting(last.before) /\ ShortNonMarker(CurBuf)) =>
          /\ measurements = last.before
          /\ Awaiting(measurements)
    /\ (/\ AfterNotify
        /\ Len(stream) >= 2
        /\ ShortNonMarker(stream[Len(stream) - 1])
        /\ Awaiting(last.before)
        /\ NonMarker(CurBuf) /\ Len(CurBuf) >= 3) =>
          /\ Len(measurements) = Len(last.before)
          /\ HasPR(measurements[Len(measurements)])
          /\ measurements[Len(measurements)].pr = Triple(CurBuf)
          /\ StripPR(measurements[Len(measurements)]) = last.before[Len(last.before)]

C9_Witness ==
    /\ AfterNotify
    /\ stream = <<ExampleMeasurement, <<80, 64>>, <<80, 64, 70>>>>
    /\ Len(measurements) = 1
    /\ measurements[1].pr = [max |-> 80, min |-> 64, avg |-> 70]

(***************************************************************************)
(* C10: whenever a record awaits its pulse rate and a non-marker buffer    *)
(* shorter than 3 bytes is processed, the incomplete-pulse-rate warning is *)
(* emitted for that buffer.                                                *)
(***************************************************************************)
C10_IncompleteWarningEmitted ==
    (AfterNotify /\ Awaiting(last.before) /\ NonMarker(CurBuf) /\ Len(CurBuf) < 3) =>
        \E j \in (last.nlog + 1)..Len(log) :
            log[j].level = "WARNING" /\ log[j].msg = LogPRIncomplete.msg


(***************************************************************************)
(* C11: a buffer whose first byte is 0xE9 but which is shorter than 23     *)
(* bytes is dropped with the invalid-packet warning and changes nothing:   *)
(* the records, and with them the record awaiting a pulse rate (if any),   *)
(* are the same after the step as before it, in both correlator states.    *)
(***************************************************************************)
ShortMarker(b) == Len(b) >= 1 /\ Len(b) < 23 /\ b[1] = 233

C11_MalformedDropped ==
    (AfterNotify /\ ShortMarker(CurBuf)) =>
        /\ measurements = last.before
        /\ Awaiting(measurements) = Awaiting(last.before)
        /\ handler_exc = NoExc
        /\ Len(log) = last.nlog + 2
        /\ log[Len(log)].level = "WARNING"
        /\ log[Len(log)].msg = "Invalid or incomplete data packet received."

\* The malformed packet arrives once in each correlator state.
C11_Witness ==
    /\ AfterNotify
    /\ Len(stream) = 3
    /\ ShortMarker(stream[1]) /\ ValidMeasurement(stream[2]) /\ ShortMarker(stream[3])
    /\ Len(stream[3]) = 22
    /\ Len(measurements) = 1
    /\ Awaiting(measurements)
    /\ log[Len(log)].level = "WARNING"

(***************************************************************************)
(* C12: the selection over a session with no records gives the no-data     *)
(* outcome, the "No measurements received." event, and raises no error.    *)
(***************************************************************************)
C12_EmptySessionNoData ==
    (last.op = "select" /\ Len(measurements) = 0) =>
        /\ main_exc = NoExc
        /\ latest = None
        /\ Len(log) = last.nlog + 1
        /\ log[Len(log)].level = "INFO"
        /\ log[Len(log)].msg = "No measurements received."

C12_Witness ==
    /\ last.op = "select"
    /\ measurements = <<>>
    /\ Len(stream) = 2
    /\ log[Len(log)].msg = "No measurements received."
    /\ main_exc = NoExc


(***************************************************************************)
(* C13: for every valid buffer b the decoder yields sequence_id            *)
(* b[1] & 0x0F, year 2000 + (b[8] & 0x7F), month b[9] & 0x0F, day          *)
(* b[10] & 0x1F, hour b[11] & 0x1F, minute b[12] & 0x3F, second            *)
(* b[13] & 0x3F and SpO2 max/min/avg b[17], b[18], b[19] each & 0x7F; the  *)
(* example packet decodes to sequence_id 1, 2025-3-10 12:30:45 and SpO2    *)
(* {98, 90, 94}.  (x & (2^k - 1) is x mod 2^k; bytes are 1-based here.)    *)
(***************************************************************************)
C13_DecoderFields ==
    /\ (Len(stream) >= 1 /\ ValidMeasurement(stream[1])) =>
          LET b == stream[1]
              m == measurements[1]
          IN  /\ Len(measurements) = 1
              /\ m.packet = b[2] % 16
              /\ m.end_time.year = 2000 + (b[9] % 128)
              /\ m.end_time.month = b[10] % 16
              /\ m.end_time.day = b[11] % 32
              /\ m.end_time.hour = b[12] % 32
              /\ m.end_time.minute = b[13] % 64
              /\ m.end_time.second = b[14] % 64
              /\ m.spo2 = [max |-> b[18] % 128, min |-> b[19] % 128, avg |-> b[20] % 128]
    /\ (Len(stream) >= 1 /\ stream[1] = ExampleMeasurement) =>
          /\ measurements[1].packet = 1
          /\ measurements[1].end_time =
                [year |-> 2025, month |-> 3, day |-> 10,
                 hour |-> 12, minute |-> 30, second |-> 45]
          /\ measurements[1].spo2 = [max |-> 98, min |-> 90, avg |-> 94]

\* A packet whose month byte has a bit above the mask, decoded.
C13_Witness ==
    /\ Len(stream) = 1
    /\ stream[1][2] = 255 /\ stream[1][9] = 128 /\ stream[1][10] = 16
    /\ Len(measurements) = 1
    /\ measurements[1].packet = 15
    /\ measurements[1].end_time.year = 2000
    /\ measurements[1].end_time.month = 0

(***************************************************************************)
(* C16: whatever the byte values 0..255 of the buffers, every record has   *)
(* sequence_id in 0..15, SpO2 and (when present) pulse-rate max/min/avg in *)
(* 0..127, year in 2000..2127, month in 0..15, day and hour in 0..31,      *)
(* minute and second in 0..63.                                             *)
(***************************************************************************)
StatsInRange(s) == s.max \in 0..127 /\ s.min \in 0..127 /\ s.avg \in 0..127

C16_FieldRanges ==
    \A i \in 1..Len(measurements) :
        LET m == measurements[i]
        IN  /\ m.packet \in 0..15
            /\ StatsInRange(m.spo2)
            /\ HasPR(m) => StatsInRange(m.pr)
            /\ m.end_time.year \in 2000..2127
            /\ m.end_time.month \in 0..15
            /\ m.end_time.day \in 0..31
            /\ m.end_time.hour \in 0..31
            /\ m.end_time.minute \in 0..63
            /\ m.end_time.second \in 0..63

\* All-ones bytes in the packet and in the triple reach the top of each range.
C16_Witness ==
    /\ Len(stream) = 2
    /\ \A i \in {2, 9, 10, 11, 12, 13, 14, 18, 19, 20} : stream[1][i] = 255
    /\ stream[2] = <<255, 255, 255>>
    /\ Len(measurements) = 1
    /\ measurements[1].packet = 15
    /\ measurements[1].end_time.year = 2127
    /\ measurements[1].end_time.minute = 63
    /\ measurements[1].spo2.max = 127
    /\ HasPR(measurements[1]) /\ measurements[1].pr.avg = 127


(***************************************************************************)
(* C14: the session is append-only: after each handler step the records    *)
(* that were there are still there, in the same places, with the same      *)
(* sequence_id, timestamp and SpO2 (only a pulse rate may be set on one),  *)
(* nothing is deleted, reordered or deduplicated; main changes no record,  *)
(* and when the stream stops the records produced so far remain, a last    *)
(* record without pulse rate included.                                     *)
(***************************************************************************)
C14_AppendOnly ==
    /\ AfterNotify =>
          /\ Len(measurements) >= Len(last.before)
          /\ \A i \in 1..Len(last.before) :
                /\ StripPR(measurements[i]) = StripPR(last.before[i])
                /\ HasPR(last.before[i]) => HasPR(measurements[i])
    /\ last.op \in {"main", "select"} => measurements = last.before
    /\ pc = "done" =>
          /\ Len(measurements) = Len(ValidOnes(stream))
          /\ \A i \in 1..Len(measurements) :
                StripPR(measurements[i]) = parse(ValidOnes(stream)[i]).value

\* The same packet twice gives two records; the stream has stopped with the
\* last record lacking a pulse rate.
C14_Witness ==
    /\ pc = "done"
    /\ stream = <<ExampleMeasurement, <<80, 64, 70>>, ExampleMeasurement>>
    /\ Len(measurements) = 2
    /\ HasPR(measurements[1])
    /\ StripPR(measurements[1]) = measurements[2]

(***************************************************************************)
(* C15: whenever the session is non-empty and a buffer with first byte     *)
(* other than 0xE9 and length >= 3 is processed, the most recently         *)
(* appended record gets the masked first three bytes as pulse rate,        *)
(* whether or not it already had one and whatever its sequence_id.         *)
(***************************************************************************)
C15_LastRecordAlwaysUpdated ==
    (AfterNotify /\ Len(last.before) > 0 /\ NonMarker(CurBuf) /\ Len(CurBuf) >= 3) =>
        LET n == Len(last.before)
        IN  /\ Len(measurements) = n
            /\ HasPR(measurements[n])
            /\ measurements[n].pr = Triple(CurBuf)
            /\ StripPR(measurements[n]) = StripPR(last.before[n])
            /\ \A i \in 1..(n - 1) : measurements[i] = last.before[i]

\* A second triple replaces the first on the same record.
C15_Witness ==
    /\ AfterNotify
    /\ Len(stream) = 3
    /\ Len(measurements) = 1
    /\ Len(last.before) = 1
    /\ HasPR(last.before[1])
    /\ last.before[1].pr = [max |-> 80, min |-> 64, avg |-> 70]
    /\ HasPR(measurements[1])
    /\ measurements[1].pr = [max |-> 81, min |-> 65, avg |-> 71]

(***************************************************************************)
(* C17: a handler invocation runs to completion as one atomic step with    *)
(* respect to the other invocations and to main: no step of main and no    *)
(* delivery finds an invocation begun and unfinished, at most the oldest   *)
(* pending invocation has begun, so whenever main can run the session is   *)
(* the result of processing the finished invocations' buffers one after    *)
(* the other in arrival order, raw_data lists them in that order, and the  *)
(* selection never sees a record that lacks a field parse builds.          *)
(***************************************************************************)
RECURSIVE Sequential(_)
Sequential(bs) ==
    IF bs = <<>> THEN <<>>
    ELSE HandlerBody(Sequential(SubSeq(bs, 1, Len(bs) - 1)), bs[Len(bs)]).measurements

\* The number of invocations that have finished.
Finished == Len(stream) - Len(loop.tasks)

Begun(t) == t.at # "l53"

C17_HandlerAtomic ==
    /\ \A i \in 1..Len(loop.tasks) :
          Begun(loop.tasks[i]) => (i = 1 /\ loop.running)
    /\ last.op \in {"main", "select", "deliver"} =>
          \A i \in 1..Len(loop.tasks) : ~Begun(loop.tasks[i])
    /\ ~loop.running =>
          /\ measurements = Sequential(SubSeq(stream, 1, Finished))
          /\ Len(raw_data) = Finished
          /\ \A i \in 1..Finished : raw_data[i] = Hex(stream[i])
    /\ last.op = "select" =>
          \A i \in 1..Len(measurements) :
              {"packet", "end_time", "spo2"} \subseteq DOMAIN measurements[i]

\* The selection ran between two invocations: one had finished and given the
\* record it chose, two more were created and had not begun.
C17_Witness ==
    /\ last.op = "select"
    /\ latest # None
    /\ Len(measurements) = 1
    /\ Len(stream) = 3
    /\ Len(loop.tasks) = 2
    /\ ValidMeasurement(loop.tasks[1].data)

(***************************************************************************)
(* C18: the "PR values incomplete in notification." branch is never taken: *)
(* the assignment is guarded by a non-empty session and length >= 3, so    *)
(* the IndexError it would catch cannot arise.                             *)
(***************************************************************************)
C18_IncompleteBranchDead ==
    \A j \in 1..Len(log) : log[j].msg # "PR values incomplete in notification."

\* Short non-marker buffers met a non-empty session, then a triple attached.
C18_Witness ==
    /\ AfterNotify
    /\ Len(stream) = 3
    /\ ValidMeasurement(stream[1])
    /\ stream[2] = <<80>>
    /\ stream[3] = <<80, 64, 70>>
    /\ HasPR(measurements[1])
    /\ Len(log) = 5

====
